---- MODULE Spec2Model ----
(***************************************************************************)
(* A model of the tree-walking evaluator of ajwerner/monkey                *)
(* (package evaluator, src/unnamed/part_000 lines 362-770), of the         *)
(* object model it works on (package object, src/unnamed/part_002), of the *)
(* lexer (src/lexer/lexer.go) and of the prompt (package repl,             *)
(* src/unnamed/part_004) with the compiler and the VM it drives.           *)
(*                                                                         *)
(* Go values of type object.Object are records tagged by `type` (the       *)
(* ObjectType of part_002:16-29).  Go pointers (to object.Array,           *)
(* to object.Function, to object.Environment, the error in object.Error)  *)
(* are addresses: a fresh address is drawn from the counter `next` at every *)
(* allocation, so that Go's `==` on interface values can be modelled as it  *)
(* behaves (identity for pointers, content for scalars, a run-time panic   *)
(* for maps).  A Go nil object.Object is the value NIL; a run-time panic is *)
(* the value Panic(..), which unwinds every caller up to a deferred         *)
(* recover().                                                              *)
(***************************************************************************)
EXTENDS Integers, Sequences, FiniteSets, TLC

VARIABLES
    program,   \* the ast.Program handed to Eval
    oracle,    \* the iteration orders Go's runtime picks for `range` over a map
    envs,      \* the heap of object.Environment: address -> [store, parent]
    next,      \* the next free address (allocation counter)
    trace,     \* the calls of Eval, in the order they returned
    result,    \* what Eval(program, env) returned
    done,      \* whether Eval(program, env) has been called
    lexer,     \* the lexer.Lexer: [cur, err, state]
    log,       \* one record per call of Lexer.Next, in order
    machine,   \* the compiler and the vm.VM of the line being run
    session    \* the prompt: the lines read so far and what was written for each

vars == <<program, oracle, envs, next, trace, result, done, lexer, log, machine, session>>

\* the variables of the evaluator, of the lexer and of the prompt
evalVars == <<program, oracle, envs, next, trace, result, done>>
lexVars == <<lexer, log>>
vmVars == <<machine, session>>

\* no lexer, no compiler, no VM and no prompt has been made
NoLexer == lexer = <<>> /\ log = <<>>
NoMachine == machine = <<>> /\ session = <<>>

----------------------------------------------------------------------------
(* Values: object.Object                                                   *)

NIL == [type |-> "nil"]
NULL == [type |-> "NULL"]
Integer(i) == [type |-> "INTEGER", i |-> i]
Bool(b) == [type |-> "BOOL", b |-> b]
String(s) == [type |-> "STRING", s |-> s]
ReturnValue(v) == [type |-> "RETURN_VALUE", Value |-> v]
Error(msg, addr) == [type |-> "ERROR", Err |-> msg, addr |-> addr]
Array(elems, addr) == [type |-> "ARRAY", elems |-> elems, addr |-> addr]
Function(params, body, env, addr) ==
    [type |-> "FUNCTION", Parameters |-> params, Body |-> body, Env |-> env, addr |-> addr]
Builtin(name) == [type |-> "BUILTIN", name |-> name]
\* object.Hash is a Go map: the entries are kept as a sequence of
\* <<key, value>> with distinct keys.
Hash(entries) == [type |-> "HASH", entries |-> entries]
\* a run-time panic unwinding the Go stack (not an object.Object)
Panic(why) == [type |-> "panic", why |-> why]

TRUE_ == Bool(TRUE)
FALSE_ == Bool(FALSE)

IsPanic(v) == v.type = "panic"
IsNil(v) == v.type = "nil"

----------------------------------------------------------------------------
(* object.Float: a float64 is modelled by the rational num/den it holds,   *)
(* den >= 0 and the fraction in lowest terms; den = 0 encodes +Inf (num =  *)
(* 1), -Inf (num = -1) and NaN (num = 0).  Rounding and the sign of zero   *)
(* are not modelled.                                                       *)

Abs(n) == IF n < 0 THEN -n ELSE n
Sign(n) == IF n < 0 THEN -1 ELSE IF n > 0 THEN 1 ELSE 0

RECURSIVE Gcd(_, _)
Gcd(a, b) == IF b = 0 THEN a ELSE Gcd(b, a % b)

Float(num, den) ==
    IF den = 0 THEN [type |-> "FLOAT", num |-> Sign(num), den |-> 0]
    ELSE LET g == Gcd(Abs(num), Abs(den))
             s == Sign(den)
         IN  [type |-> "FLOAT", num |-> (s * num) \div g, den |-> (s * den) \div g]

IsNaN(f) == f.den = 0 /\ f.num = 0

\* Go's integer division truncates toward zero
Quo(a, b) == Sign(a) * Sign(b) * (Abs(a) \div Abs(b))

----------------------------------------------------------------------------
(* object.Environment (part_002:31-59).  The heap `es` is a sequence of    *)
(* environments; an environment's address is its index, parent = 0 is the  *)
(* nil parent.  A store is a function from the names it holds to values.   *)

EmptyStore == [n \in {} |-> NIL]

NewEnvironment(es) == Append(es, [store |-> EmptyStore, parent |-> 0])

NewEnclosedEnvironment(es, parent) ==
    LET fresh == NewEnvironment(es)
    IN  [fresh EXCEPT ![Len(fresh)].parent = parent]

\* (obj, ok) of e.Get(name): the receiver's store first, then the parents'
RECURSIVE Get(_, _, _)
Get(es, e, name) ==
    IF name \in DOMAIN es[e].store
    THEN [obj |-> es[e].store[name], ok |-> TRUE]
    ELSE IF es[e].parent # 0
         THEN Get(es, es[e].parent, name)
         ELSE [obj |-> NIL, ok |-> FALSE]

\* Set as it would be if it assigned to the enclosing environment that
\* already holds the name
SetMut(es, e, name, val) ==
    LET at == IF name \notin DOMAIN es[e].store /\ es[e].parent # 0
                 /\ name \in DOMAIN es[es[e].parent].store
              THEN es[e].parent ELSE e
    IN  [es EXCEPT ![at].store =
            [n \in (DOMAIN @) \cup {name} |-> IF n = name THEN val ELSE @[n]]]

\* the heap after e.Set(name, val): e.store[name] = val
Set(es, e, name, val) ==
    [es EXCEPT ![e].store =
        [n \in (DOMAIN @) \cup {name} |-> IF n = name THEN val ELSE @[n]]]

----------------------------------------------------------------------------
(* Helpers of the evaluator that evaluate no sub-node.  An operator that   *)
(* may call newError takes the address `a` the new error would get.        *)

newError(msg, a) == Error(msg, a)

\* isError as it would be with the type test against the wrong ObjectType
isErrorMut(obj) == (~IsNil(obj)) /\ obj.type = "NULL"

isError(obj) == (~IsNil(obj)) /\ obj.type = "ERROR"

Hashable(o) == o.type \in {"BOOL", "STRING", "INTEGER"}

unwrapReturnValue(obj) ==
    IF obj.type = "RETURN_VALUE" THEN obj.Value ELSE obj

\* Go's == on two interface values: "true", "false", or "panic" when both
\* hold the same uncomparable dynamic type (object.Hash is a map)
RECURSIVE GoEq(_, _)
GoEq(l, r) ==
    IF l.type # r.type THEN "false"
    ELSE CASE l.type = "INTEGER" -> IF l.i = r.i THEN "true" ELSE "false"
           [] l.type = "FLOAT" ->
                IF ~IsNaN(l) /\ ~IsNaN(r) /\ l.num = r.num /\ l.den = r.den
                THEN "true" ELSE "false"
           [] l.type = "BOOL" -> IF l.b = r.b THEN "true" ELSE "false"
           [] l.type = "STRING" -> IF l.s = r.s THEN "true" ELSE "false"
           [] l.type = "RETURN_VALUE" -> GoEq(l.Value, r.Value)
           [] l.type \in {"ERROR", "ARRAY", "FUNCTION"} ->
                IF l.addr = r.addr THEN "true" ELSE "false"
           [] l.type = "BUILTIN" -> IF l.name = r.name THEN "true" ELSE "false"
           [] l.type = "HASH" -> "panic"
           [] OTHER -> "true"   \* Null{} == Null{}, nil == nil

isTruthy(obj) ==
    IF GoEq(obj, NULL) = "true" THEN FALSE
    ELSE IF GoEq(obj, TRUE_) = "true" THEN TRUE
    ELSE IF GoEq(obj, FALSE_) = "true" THEN FALSE
    ELSE TRUE

evalBangOperatorExpression(right) ==
    CASE right.type = "BOOL" -> Bool(~right.b)
      [] right.type = "NULL" -> TRUE_
      [] OTHER -> FALSE_

evalMinusPrefixOperatorExpression(right, a) ==
    IF IsNil(right) THEN Panic("nil pointer dereference")
    ELSE IF right.type # "INTEGER"
         THEN newError("unknown operator: -" \o right.type, a)
         ELSE Integer((-1) * right.i)

evalPrefixExpression(operator, right, a) ==
    CASE operator = "!" -> evalBangOperatorExpression(right)
      [] operator = "-" -> evalMinusPrefixOperatorExpression(right, a)
      [] OTHER -> IF IsNil(right) THEN Panic("nil pointer dereference")
                  ELSE newError("unknown operator: " \o operator \o right.type, a)

evalStringInfixExpression(operator, left, right, a) ==
    IF operator # "+"
    THEN newError("unknown operator: STRING " \o operator \o " STRING", a)
    ELSE String(left.s \o right.s)

\* the mutant of evalIntegerInfixExpression: + subtracts
evalIntegerInfixExpressionMut(operator, left, right, a) ==
    CASE operator = "+" -> Integer(left.i - right.i)
      [] operator = "-" -> Integer(left.i - right.i)
      [] operator = "*" -> Integer(left.i * right.i)
      [] operator = "/" -> IF right.i = 0 THEN Panic("integer divide by zero")
                           ELSE Integer(Quo(left.i, right.i))
      [] operator = "<" -> Bool(left.i < right.i)
      [] operator = ">" -> Bool(left.i > right.i)
      [] operator = "==" -> Bool(left.i = right.i)
      [] operator = "!=" -> Bool(left.i # right.i)
      [] OTHER -> newError("unknown operator: INTEGER " \o operator \o " INTEGER", a)

evalIntegerInfixExpression(operator, left, right, a) ==
    CASE operator = "+" -> Integer(left.i + right.i)
      [] operator = "-" -> Integer(left.i - right.i)
      [] operator = "*" -> Integer(left.i * right.i)
      [] operator = "/" -> IF right.i = 0 THEN Panic("integer divide by zero")
                           ELSE Integer(Quo(left.i, right.i))
      [] operator = "<" -> Bool(left.i < right.i)
      [] operator = ">" -> Bool(left.i > right.i)
      [] operator = "==" -> Bool(left.i = right.i)
      [] operator = "!=" -> Bool(left.i # right.i)
      [] OTHER -> newError("unknown operator: INTEGER " \o operator \o " INTEGER", a)

evalFloatInfixExpression(operator, left, right, a) ==
    LET nan == IsNaN(left) \/ IsNaN(right)
        inf == left.den = 0 /\ right.den = 0
        l == IF inf THEN left.num ELSE left.num * right.den
        r == IF inf THEN right.num ELSE right.num * left.den
        sr == IF right.num < 0 THEN -1 ELSE 1
    IN
    CASE operator = "+" ->
            IF inf THEN Float(IF left.num = right.num THEN left.num ELSE 0, 0)
            ELSE Float(l + r, left.den * right.den)
      [] operator = "-" ->
            IF inf THEN Float(IF left.num = -right.num THEN left.num ELSE 0, 0)
            ELSE Float(l - r, left.den * right.den)
      [] operator = "*" -> Float(left.num * right.num, left.den * right.den)
      [] operator = "/" ->
            Float(sr * left.num * right.den, sr * left.den * right.num)
      [] operator = "<" -> Bool(~nan /\ l < r)
      [] operator = ">" -> Bool(~nan /\ l > r)
      [] operator = "==" -> Bool(GoEq(left, right) = "true")
      [] operator = "!=" -> Bool(GoEq(left, right) # "true")
      [] OTHER -> newError("unknown operator: FLOAT " \o operator \o " FLOAT", a)

evalInfixExpression(operator, left, right, a) ==
    IF IsNil(left) \/ IsNil(right) THEN Panic("nil pointer dereference")
    ELSE
    LET intFloat == left.type = "INTEGER" /\ right.type = "FLOAT"
        floatInt == left.type = "FLOAT" /\ right.type = "INTEGER"
        l == IF intFloat THEN Float(left.i, 1) ELSE left
        r == IF floatInt THEN Float(right.i, 1) ELSE right
        lt == l.type
        rt == r.type
        eq == GoEq(l, r)
    IN
    CASE lt = "INTEGER" /\ rt = "INTEGER" -> evalIntegerInfixExpression(operator, l, r, a)
      [] lt = "FLOAT" /\ rt = "FLOAT" -> evalFloatInfixExpression(operator, l, r, a)
      [] lt = "STRING" /\ rt = "STRING" -> evalStringInfixExpression(operator, l, r, a)
      [] OTHER ->
            IF operator = "==" THEN
                IF eq = "panic" THEN Panic("comparing uncomparable type object.Hash")
                ELSE Bool(eq = "true")
            ELSE IF operator = "!=" THEN
                IF eq = "panic" THEN Panic("comparing uncomparable type object.Hash")
                ELSE Bool(eq # "true")
            ELSE IF lt # rt THEN
                newError("type mismatch: " \o lt \o " " \o operator \o " " \o rt, a)
            ELSE
                newError("unknown operator: " \o lt \o " " \o operator \o " " \o rt, a)

\* the Go map operations of object.Hash on the entry sequence
HashFind(entries, key) ==
    {i \in 1..Len(entries) : GoEq(entries[i][1], key) = "true"}

HashPut(entries, key, value) ==
    IF HashFind(entries, key) = {} THEN Append(entries, <<key, value>>)
    ELSE LET i == CHOOSE j \in HashFind(entries, key) : TRUE
         IN  [entries EXCEPT ![i] = <<entries[i][1], value>>]

\* a key Go's runtime cannot hash: m[key] = value panics
RECURSIVE Unhashable(_)
Unhashable(key) ==
    CASE key.type = "HASH" -> TRUE
      [] key.type = "RETURN_VALUE" -> Unhashable(key.Value)
      [] OTHER -> FALSE

evalHashIndexExpression(hash, index, a) ==
    IF IsNil(index) THEN Panic("nil pointer dereference")
    ELSE IF ~Hashable(index)
    THEN newError("unusable as hash key: " \o index.type, a)
    ELSE LET found == HashFind(hash.entries, index)
         IN  IF found = {} THEN NULL
             ELSE hash.entries[CHOOSE i \in found : TRUE][2]

evalArrayIndexExpression(array, index) ==
    LET idx == index.i
        max == Len(array.elems) - 1
    IN  IF idx < 0 \/ idx > max THEN NULL ELSE array.elems[idx + 1]

evalIndexExpression(left, index, a) ==
    IF IsNil(left) THEN Panic("nil pointer dereference")
    ELSE IF left.type = "ARRAY" /\ IsNil(index) THEN Panic("nil pointer dereference")
    ELSE IF left.type = "ARRAY" /\ index.type = "INTEGER"
         THEN evalArrayIndexExpression(left, index)
    ELSE IF left.type = "HASH" THEN evalHashIndexExpression(left, index, a)
    ELSE newError("index operator not supported: " \o left.type, a)

----------------------------------------------------------------------------
(* The builtin table is not among the sources (the evaluator only refers   *)
(* to `builtins`); it is modelled from the specification's list.           *)

builtins == {"len", "first", "last", "rest", "push", "puts"}

applyBuiltin(name, args, a) ==
    LET arr == Len(args) >= 1 /\ args[1].type = "ARRAY"
        bad == newError("argument to " \o name \o " not supported", a)
        arity == newError("wrong number of arguments", a)
    IN
    CASE name = "puts" -> NULL
      [] name = "push" ->
            IF Len(args) # 2 THEN arity
            ELSE IF ~arr THEN bad
            ELSE Array(Append(args[1].elems, args[2]), a)
      [] Len(args) # 1 -> arity
      [] name = "len" ->
            IF args[1].type = "STRING" THEN Integer(Len(args[1].s))
            ELSE IF arr THEN Integer(Len(args[1].elems))
            ELSE bad
      [] ~arr -> bad
      [] name = "first" ->
            IF Len(args[1].elems) > 0 THEN args[1].elems[1] ELSE NULL
      [] name = "last" ->
            IF Len(args[1].elems) > 0 THEN args[1].elems[Len(args[1].elems)] ELSE NULL
      [] OTHER ->
            IF Len(args[1].elems) > 0 THEN Array(Tail(args[1].elems), a) ELSE NULL

----------------------------------------------------------------------------
(* Eval and the functions that call it.  The machine state threaded through *)
(* a call is st = [envs, next, trace, oracle, depth]; every operator returns *)
(* [val, st]: the object.Object returned (or the panic raised) and the      *)
(* state it leaves.                                                         *)

R(v, st) == [val |-> v, st |-> st]

\* the state after one allocation (the address handed out is st.next)
Alloc(st) == [st EXCEPT !.next = @ + 1]

\* Eval is entered: one level deeper in the Go call stack
Enter(st) == [st EXCEPT !.depth = @ + 1]

\* Eval returns r.val (or unwinds with the panic r.val) for `node`, which it
\* was called on with environment env in state st: the call is recorded in
\* the trace; for a let statement, with its name and the heap of
\* environments as the call found it (pre) and as it leaves it (post)
Leave(node, env, st, r) ==
    R(r.val,
      [r.st EXCEPT !.depth = @ - 1,
                   !.trace = Append(@, [depth |-> r.st.depth,
                                        node |-> node.node,
                                        id |-> IF "id" \in DOMAIN node THEN node.id ELSE 0,
                                        op |-> IF "Operator" \in DOMAIN node
                                               THEN node.Operator ELSE "",
                                        env |-> env,
                                        name |-> IF node.node = "LetStatement"
                                                 THEN node.Name.Value ELSE "",
                                        pre |-> IF node.node = "LetStatement"
                                                THEN st.envs ELSE <<>>,
                                        post |-> IF node.node = "LetStatement"
                                                 THEN r.st.envs ELSE <<>>,
                                        val |-> r.val])])

\* the order in which `range node.Pairs` visits the n pairs of a hash
\* literal: the head of the oracle, restricted to 1..n
RangeOrder(st, n) ==
    IF n <= 1 THEN [i \in 1..n |-> i]
    ELSE SelectSeq(Head(st.oracle), LAMBDA i : i <= n)

\* the oracle after one `range` over a map of n pairs
RangeDone(st, n) ==
    IF n <= 1 THEN st ELSE [st EXCEPT !.oracle = Append(Tail(@), Head(@))]

RECURSIVE Eval(_, _, _)
RECURSIVE EvalNode(_, _, _)
RECURSIVE evalProgramFrom(_, _, _, _, _)
RECURSIVE evalBlockStatementFrom(_, _, _, _, _)
RECURSIVE evalExpressionsFrom(_, _, _, _, _)
RECURSIVE applyFunction(_, _, _)
RECURSIVE evalIfExpression(_, _, _)
RECURSIVE evalHashPairs(_, _, _, _, _, _)

\* evalProgram as it would be without the ReturnValue case of its type
\* switch (the evalStatements of part_000:52-60 with the Error case only)
RECURSIVE evalProgramFromMut(_, _, _, _, _)
evalProgramFromMut(stmts, i, res, env, st) ==
    IF i > Len(stmts) THEN R(res, st)
    ELSE LET r == Eval(stmts[i], env, st)
         IN  CASE IsPanic(r.val) -> r
               [] r.val.type = "ERROR" -> r
               [] OTHER -> evalProgramFromMut(stmts, i + 1, r.val, env, r.st)

\* the loop of evalProgram from statement i on; `res` is the loop's `result`
evalProgramFrom(stmts, i, res, env, st) ==
    IF i > Len(stmts) THEN R(res, st)
    ELSE LET r == Eval(stmts[i], env, st)
         IN  CASE IsPanic(r.val) -> r
               [] r.val.type = "RETURN_VALUE" -> R(r.val.Value, r.st)
               [] r.val.type = "ERROR" -> r
               [] OTHER -> evalProgramFrom(stmts, i + 1, r.val, env, r.st)

evalProgram(prog, env, st) == evalProgramFrom(prog.Statements, 1, NIL, env, st)

\* the loop of evalBlockStatement from statement i on
evalBlockStatementFrom(stmts, i, res, env, st) ==
    IF i > Len(stmts) THEN R(res, st)
    ELSE LET r == Eval(stmts[i], env, st)
         IN  CASE IsPanic(r.val) -> r
               [] ~IsNil(r.val) /\ r.val.type \in {"RETURN_VALUE", "ERROR"} -> r
               [] OTHER -> evalBlockStatementFrom(stmts, i + 1, r.val, env, r.st)

evalBlockStatement(block, env, st) ==
    evalBlockStatementFrom(block.Statements, 1, NIL, env, st)

\* the loop of evalExpressions from expression i on; `acc` is `result`.
\* A panic is handed back as a one-element list holding the panic value.
evalExpressionsFrom(exps, i, acc, env, st) ==
    IF i > Len(exps) THEN R(acc, st)
    ELSE LET r == Eval(exps[i], env, st)
         IN  IF IsPanic(r.val) \/ isError(r.val) THEN R(<<r.val>>, r.st)
             ELSE evalExpressionsFrom(exps, i + 1, Append(acc, r.val), env, r.st)

evalExpressions(exps, env, st) == evalExpressionsFrom(exps, 1, <<>>, env, st)

\* extendFunctionEnv as it would be with NewEnvironment() in place of
\* NewEnclosedEnvironment(fn.Env)
extendFunctionEnvMut(fn, args, es) ==
    LET es1 == NewEnvironment(es)
        env == Len(es1)
        n == Len(fn.Parameters)
        m == IF Len(args) < n THEN Len(args) ELSE n
        bind[k \in 0..m] ==
            IF k = 0 THEN es1
            ELSE Set(bind[k - 1], env, fn.Parameters[k].Value, args[k])
    IN  [env |-> env, es |-> bind[m], panicked |-> Len(args) < n]

\* [env, heap]: the environment of a call and the heap holding it, or a
\* panic when args is shorter than fn.Parameters (args[paramIdx])
extendFunctionEnv(fn, args, es) ==
    LET es1 == NewEnclosedEnvironment(es, fn.Env)
        env == Len(es1)
        n == Len(fn.Parameters)
        m == IF Len(args) < n THEN Len(args) ELSE n
        bind[k \in 0..m] ==
            IF k = 0 THEN es1
            ELSE Set(bind[k - 1], env, fn.Parameters[k].Value, args[k])
    IN  [env |-> env, es |-> bind[m], panicked |-> Len(args) < n]

evalIdentifier(node, env, st) ==
    LET got == Get(st.envs, env, node.Value)
    IN  IF got.ok THEN R(got.obj, st)
        ELSE IF node.Value \in builtins THEN R(Builtin(node.Value), st)
        ELSE R(newError("identifier not found: " \o node.Value, st.next), Alloc(st))

applyFunction(fn, args, st) ==
    CASE fn.type = "FUNCTION" ->
            LET ext == extendFunctionEnv(fn, args, st.envs)
                st1 == [st EXCEPT !.envs = ext.es]
            IN  IF ext.panicked THEN R(Panic("index out of range"), st1)
                ELSE LET evaluated == Eval(fn.Body, ext.env, st1)
                     IN  IF IsPanic(evaluated.val) THEN evaluated
                         ELSE R(unwrapReturnValue(evaluated.val), evaluated.st)
      [] fn.type = "BUILTIN" -> R(applyBuiltin(fn.name, args, st.next), Alloc(st))
      [] IsNil(fn) -> R(Panic("nil pointer dereference"), st)
      [] OTHER -> R(newError("not a function: " \o fn.type, st.next), Alloc(st))

evalIfExpression(ie, env, st) ==
    LET condition == Eval(ie.Condition, env, st)
    IN  IF IsPanic(condition.val) \/ isError(condition.val) THEN condition
        ELSE IF isTruthy(condition.val) THEN Eval(ie.Consequence, env, condition.st)
        ELSE IF ie.Alternative.node # "nil" THEN Eval(ie.Alternative, env, condition.st)
        ELSE R(NULL, condition.st)

\* the loop of evalHashLiteral over the pairs, visited in `order` from
\* position i on; m is the map built so far
evalHashPairs(pairs, order, i, m, env, st) ==
    IF i > Len(order) THEN R(Hash(m), st)
    ELSE LET key == Eval(pairs[order[i]][1], env, st)
         IN  IF IsPanic(key.val) \/ isError(key.val) THEN key
             ELSE LET value == Eval(pairs[order[i]][2], env, key.st)
                  IN  IF IsPanic(value.val) \/ isError(value.val) THEN value
                      ELSE IF Unhashable(key.val)
                      THEN R(Panic("hash of unhashable type object.Hash"), value.st)
                      ELSE evalHashPairs(pairs, order, i + 1,
                                         HashPut(m, key.val, value.val), env, value.st)

\* evalHashLiteral: the loop, and the deferred recover() that turns any
\* panic raised below it into an Error
evalHashLiteral(node, env, st) ==
    LET n == Len(node.Pairs)
        o == evalHashPairs(node.Pairs, RangeOrder(st, n), 1, <<>>, env, RangeDone(st, n))
    IN  IF IsPanic(o.val)
        THEN R(newError("unhashable key: " \o o.val.why, o.st.next), Alloc(o.st))
        ELSE o

\* the mutant of the let case: the name is bound before the value is tested
\* for an error
evalLetStatementMut(node, env, st) ==
    LET val == Eval(node.Value, env, st)
    IN  IF IsPanic(val.val) THEN val
        ELSE IF isError(val.val)
        THEN R(val.val, [val.st EXCEPT !.envs = Set(@, env, node.Name.Value, val.val)])
        ELSE R(NIL, [val.st EXCEPT !.envs = Set(@, env, node.Name.Value, val.val)])

\* Eval, case LetStatement; it falls out of the switch to `return nil`
evalLetStatement(node, env, st) ==
    LET val == Eval(node.Value, env, st)
    IN  IF IsPanic(val.val) \/ isError(val.val) THEN val
        ELSE R(NIL, [val.st EXCEPT !.envs = Set(@, env, node.Name.Value, val.val)])

\* the type switch of Eval
EvalNode(node, env, st) ==
    CASE node.node = "Program" -> evalProgram(node, env, st)
      [] node.node = "ExpressionStatement" -> Eval(node.Expression, env, st)
      [] node.node = "BlockStatement" -> evalBlockStatement(node, env, st)
      [] node.node = "LetStatement" -> evalLetStatement(node, env, st)
      [] node.node = "ReturnStatement" ->
            LET val == Eval(node.ReturnValue, env, st)
            IN  IF IsPanic(val.val) \/ isError(val.val) THEN val
                ELSE R(ReturnValue(val.val), val.st)
      [] node.node = "IntegerLiteral" -> R(Integer(node.IntValue), st)
      [] node.node = "FloatLiteral" -> R(Float(node.FloatValue.num, node.FloatValue.den), st)
      [] node.node = "StringLiteral" -> R(String(node.Value), st)
      [] node.node = "FunctionLiteral" ->
            R(Function(node.Parameters, node.Body, env, st.next), Alloc(st))
      [] node.node = "ArrayLiteral" ->
            LET elements == evalExpressions(node.Elements, env, st)
            IN  IF Len(elements.val) = 1
                   /\ (IsPanic(elements.val[1]) \/ isError(elements.val[1]))
                THEN R(elements.val[1], elements.st)
                ELSE R(Array(elements.val, elements.st.next), Alloc(elements.st))
      [] node.node = "Bool" -> R(Bool(node.BoolValue), st)
      [] node.node = "Identifier" -> evalIdentifier(node, env, st)
      [] node.node = "PrefixExpression" ->
            LET right == Eval(node.Right, env, st)
            IN  IF IsPanic(right.val) \/ isError(right.val) THEN right
                ELSE R(evalPrefixExpression(node.Operator, right.val, right.st.next),
                       Alloc(right.st))
      [] node.node = "InfixExpression" ->
            LET left == Eval(node.Left, env, st)
            IN  IF IsPanic(left.val) \/ isError(left.val) THEN left
                ELSE LET right == Eval(node.Right, env, left.st)
                     IN  IF IsPanic(right.val) \/ isError(right.val) THEN right
                         ELSE R(evalInfixExpression(node.Operator, left.val, right.val,
                                                    right.st.next),
                                Alloc(right.st))
      [] node.node = "IfExpression" -> evalIfExpression(node, env, st)
      [] node.node = "CallExpression" ->
            LET function == Eval(node.Function, env, st)
            IN  IF IsPanic(function.val) \/ isError(function.val) THEN function
                ELSE LET args == evalExpressions(node.Arguments, env, function.st)
                     IN  IF Len(args.val) = 1
                            /\ (IsPanic(args.val[1]) \/ isError(args.val[1]))
                         THEN R(args.val[1], args.st)
                         ELSE applyFunction(function.val, args.val, args.st)
      [] node.node = "IndexExpression" ->
            LET left == Eval(node.Left, env, st)
            IN  IF IsPanic(left.val) \/ isError(left.val) THEN left
                ELSE LET index == Eval(node.Index, env, left.st)
                     IN  IF IsPanic(index.val) \/ isError(index.val) THEN index
                         ELSE R(evalIndexExpression(left.val, index.val, index.st.next),
                                Alloc(index.st))
      [] node.node = "HashLiteral" -> evalHashLiteral(node, env, st)
      [] OTHER -> R(NIL, st)

Eval(node, env, st) == Leave(node, env, st, EvalNode(node, env, Enter(st)))

----------------------------------------------------------------------------
(* AST nodes (package ast is not among the sources; the fields are the ones *)
(* the evaluator reads).  Statements carry an id, the identity of the node; *)
(* the Value of a literal is IntValue, FloatValue, BoolValue or (a string)  *)
(* Value, by its Go type.                                                   *)

NoNode == [node |-> "nil"]
Program(stmts) == [node |-> "Program", Statements |-> stmts]
ExprStmt(id, e) == [node |-> "ExpressionStatement", id |-> id, Expression |-> e]
Let(id, name, e) ==
    [node |-> "LetStatement", id |-> id,
     Name |-> [node |-> "Identifier", Value |-> name], Value |-> e]
Return(id, e) == [node |-> "ReturnStatement", id |-> id, ReturnValue |-> e]
Block(stmts) == [node |-> "BlockStatement", Statements |-> stmts]
IntLit(i) == [node |-> "IntegerLiteral", IntValue |-> i]
FloatLit(num, den) ==
    [node |-> "FloatLiteral", FloatValue |-> [num |-> num, den |-> den]]
StringLit(s) == [node |-> "StringLiteral", Value |-> s]
BoolLit(b) == [node |-> "Bool", BoolValue |-> b]
Ident(name) == [node |-> "Identifier", Value |-> name]
Prefix(op, right) == [node |-> "PrefixExpression", Operator |-> op, Right |-> right]
Infix(op, left, right) ==
    [node |-> "InfixExpression", Operator |-> op, Left |-> left, Right |-> right]
If(cond, cons, alt) ==
    [node |-> "IfExpression", Condition |-> cond, Consequence |-> cons, Alternative |-> alt]
Fn(params, body) ==
    [node |-> "FunctionLiteral",
     Parameters |-> [i \in 1..Len(params) |-> Ident(params[i])], Body |-> body]
Call(f, args) == [node |-> "CallExpression", Function |-> f, Arguments |-> args]
Arr(elems) == [node |-> "ArrayLiteral", Elements |-> elems]
Index(left, index) == [node |-> "IndexExpression", Left |-> left, Index |-> index]
HashLit(pairs) == [node |-> "HashLiteral", Pairs |-> pairs]

----------------------------------------------------------------------------
(* Programs                                                                *)

MaxPairs == 2
MaxLit == 1
HashEvals == 1

\* every order `range` may visit MaxPairs map entries in
Orders ==
    {o \in [1..MaxPairs -> 1..MaxPairs] : \A i, j \in 1..MaxPairs : o[i] = o[j] => i = j}

One(e) == Program(<<ExprStmt(1, e)>>)

\* expressions by the kind of value they evaluate to
IntE == {IntLit(i) : i \in 0..MaxLit}
FloatE == FloatLit(3, 2)
NullE == If(BoolLit(FALSE), Block(<<ExprStmt(9, IntLit(1))>>), NoNode)
NilE == If(BoolLit(TRUE), Block(<<>>), NoNode)
RetE == If(BoolLit(TRUE), Block(<<Return(9, IntLit(1))>>), NoNode)
ArrE == Arr(<<IntLit(1)>>)
HashE == HashLit(<<<<IntLit(1), IntLit(2)>>>>)
FnE == Fn(<<"p">>, Block(<<ExprStmt(8, Ident("p"))>>))
\* unbound identifiers: each evaluates to an Error of its own
ErrE == {Ident("u"), Ident("w")}

ValE ==
    IntE \cup {FloatE, BoolLit(TRUE), BoolLit(FALSE), StringLit("a"), NullE, NilE, RetE,
               ArrE, HashE, FnE, Ident("len")}
Operands == ValE \cup ErrE
Few == {IntLit(1), StringLit("a"), Ident("u"), Ident("w")}
Operators == {"+", "-", "*", "/", "<", ">", "==", "!="}

ArgLists == {<<>>} \cup {<<a>> : a \in Few} \cup {<<a, b>> : a, b \in Few}

Exprs ==
    Operands
    \cup {Prefix(op, a) : op \in {"!", "-"}, a \in Operands}
    \cup {Infix(op, a, b) : op \in Operators, a, b \in Operands}
    \cup {Index(a, b) : a, b \in Operands}
    \cup {If(c, Block(<<ExprStmt(2, a)>>), alt) :
            c \in Operands, a \in {IntLit(1), Ident("u")},
            alt \in {NoNode, Block(<<ExprStmt(3, Ident("w"))>>)}}
    \cup {Call(f, args) : f \in Operands, args \in ArgLists}
    \cup {Arr(elems) : elems \in ArgLists}

\* hash literals of at most one pair, and their lookups
Keys == {IntLit(1), FloatE, StringLit("a"), BoolLit(TRUE), NullE, ArrE, HashE, Ident("u")}
Vals == {IntLit(1), StringLit("b"), Ident("w")}
Lookups == {IntLit(1), IntLit(0), StringLit("a"), BoolLit(TRUE), FloatE, NullE, HashE, Ident("u")}
Pairs1 == {<<>>} \cup {<<<<k, v>>>> : k \in Keys, v \in Vals}
Pairs2 == {<<<<k1, v1>>, <<k2, v2>>>> : k1 \in Keys, k2 \in Keys, v1 \in Vals, v2 \in Vals}

HashExprs(pairs) ==
    {HashLit(ps) : ps \in pairs} \cup {Index(HashLit(ps), k) : ps \in pairs, k \in Lookups}

Scenarios1 ==
    { Program(<<Let(1, "five", IntLit(5)), Let(2, "ten", IntLit(10)),
                ExprStmt(3, Infix("+", Ident("five"), Ident("ten")))>>),
      Program(<<Let(1, "add", Fn(<<"a", "b">>,
                    Block(<<ExprStmt(2, Infix("+", Ident("a"), Ident("b")))>>))),
                ExprStmt(3, Call(Ident("add"), <<IntLit(1), IntLit(2)>>))>>),
      Program(<<Let(1, "newAdder", Fn(<<"x">>,
                    Block(<<ExprStmt(2, Fn(<<"y">>,
                        Block(<<ExprStmt(3, Infix("+", Ident("x"), Ident("y")))>>)))>>))),
                Let(4, "addTwo", Call(Ident("newAdder"), <<IntLit(2)>>)),
                ExprStmt(5, Call(Ident("addTwo"), <<IntLit(3)>>))>>),
      One(If(Infix(">", IntLit(10), IntLit(1)),
             Block(<<ExprStmt(2, If(Infix(">", IntLit(10), IntLit(1)),
                                    Block(<<Return(3, IntLit(10))>>), NoNode)),
                     Return(4, IntLit(1))>>), NoNode)),
      Program(<<Let(1, "a", Arr(<<IntLit(1), IntLit(2), IntLit(3)>>)),
                ExprStmt(2, Infix("+", Infix("+", Index(Ident("a"), IntLit(0)),
                                             Index(Ident("a"), IntLit(1))),
                                  Index(Ident("a"), IntLit(2))))>>),
      One(Infix("-", StringLit("foo"), StringLit("bar"))),
      One(Ident("foobar")) }

Scenarios2 ==
    {Program(<<Let(1, "h", HashLit(<<<<StringLit("one"), IntLit(1)>>,
                                      <<StringLit("two"), IntLit(2)>>>>)),
                ExprStmt(2, Infix("+", Index(Ident("h"), StringLit("one")),
                                  Index(Ident("h"), StringLit("two"))))>>) }

MaxStmts == 3

\* the statements a generated program or function body may have at position
\* id (the id is the statement's identity)
StmtPool(id) ==
    { Let(id, "a", IntLit(1)), Let(id, "b", Ident("u")), Let(id, "c", RetE),
      Return(id, IntLit(2)), Return(id, RetE), Return(id, Ident("w")),
      ExprStmt(id, IntLit(3)), ExprStmt(id, Ident("a")), ExprStmt(id, RetE),
      ExprStmt(id, NilE),
      ExprStmt(id, If(BoolLit(TRUE),
                      Block(<<ExprStmt(id + 20, If(BoolLit(TRUE),
                                  Block(<<Return(id + 40, IntLit(4))>>), NoNode)),
                              Let(id + 21, "d", IntLit(6))>>),
                      NoNode)) }

\* the statement lists of n statements, ids base + 1 .. base + n
RECURSIVE StmtLists(_, _)
StmtLists(n, base) ==
    IF n = 0 THEN {<<>>}
    ELSE {Append(l, stmt) : l \in StmtLists(n - 1, base), stmt \in StmtPool(base + n)}

StmtSeqs(base) == UNION {StmtLists(n, base) : n \in 0..MaxStmts}

\* let f = fn() { <body> }; let r = f(); let e = 5; e
CallOf(body) ==
    Program(<<Let(1, "f", Fn(<<>>, Block(body))),
              Let(2, "r", Call(Ident("f"), <<>>)),
              Let(3, "e", IntLit(5)),
              ExprStmt(4, Ident("e"))>>)

\* let z = 100;
\* let newAdder = fn(x) { let g = fn(y) { x + y + z }; let z = 10; g };
\* let add = newAdder(2); add(3)
LateBinding ==
    Program(<<Let(1, "z", IntLit(100)),
              Let(2, "newAdder", Fn(<<"x">>, Block(<<
                  Let(3, "g", Fn(<<"y">>, Block(<<
                      ExprStmt(4, Infix("+", Infix("+", Ident("x"), Ident("y")),
                                        Ident("z")))>>))),
                  Let(5, "z", IntLit(10)),
                  ExprStmt(6, Ident("g"))>>))),
              Let(7, "add", Call(Ident("newAdder"), <<IntLit(2)>>)),
              ExprStmt(8, Call(Ident("add"), <<IntLit(3)>>))>>)

\* let f = fn() { fn() { w } }; let h = fn() { let w = 1; f()() }; h()
CallerScope ==
    Program(<<Let(1, "f", Fn(<<>>, Block(<<
                  ExprStmt(2, Fn(<<>>, Block(<<ExprStmt(3, Ident("w"))>>)))>>))),
              Let(4, "h", Fn(<<>>, Block(<<
                  Let(5, "w", IntLit(1)),
                  ExprStmt(6, Call(Call(Ident("f"), <<>>), <<>>))>>))),
              ExprStmt(7, Call(Ident("h"), <<>>))>>)

\* let mk = fn(a) { fn() { a } }; let one = mk(1); let two = mk(2); one() - two()
TwoCalls ==
    Program(<<Let(1, "mk", Fn(<<"a">>, Block(<<
                  ExprStmt(2, Fn(<<>>, Block(<<ExprStmt(3, Ident("a"))>>)))>>))),
              Let(4, "one", Call(Ident("mk"), <<IntLit(1)>>)),
              Let(5, "two", Call(Ident("mk"), <<IntLit(2)>>)),
              ExprStmt(6, Infix("-", Call(Ident("one"), <<>>),
                                Call(Ident("two"), <<>>)))>>)

Closures == {LateBinding, CallerScope, TwoCalls}

\* let statements that fail or rebind a name:
\*   let x = 1; let x = <a>; x
\*   let x = if (true) { let x = 2; <a> }; x
\*   let x = 1; let f = fn() { let x = <a>; x }; f(); x
LetPrograms ==
    UNION { { Program(<<Let(1, "x", IntLit(1)), Let(2, "x", a), ExprStmt(3, Ident("x"))>>),
              Program(<<Let(1, "x", If(BoolLit(TRUE),
                                       Block(<<Let(2, "x", IntLit(2)), ExprStmt(3, a)>>),
                                       NoNode)),
                        ExprStmt(4, Ident("x"))>>),
              Program(<<Let(1, "x", IntLit(1)),
                        Let(2, "f", Fn(<<>>, Block(<<Let(3, "x", a),
                                                     ExprStmt(4, Ident("x"))>>))),
                        ExprStmt(5, Call(Ident("f"), <<>>)),
                        ExprStmt(6, Ident("x"))>>) } : a \in {IntLit(0), Ident("u"), ArrE} }

\* programs that range over no map of two or more entries
PlainPrograms ==
    Scenarios1 \cup Closures \cup LetPrograms
    \cup {Program(stmts) : stmts \in StmtSeqs(0)}
    \cup {CallOf(body) : body \in StmtSeqs(10)}
    \cup {One(e) : e \in Exprs \cup HashExprs(Pairs1)}
    \cup {Program(<<Let(1, "x", a), ExprStmt(2, Ident("x"))>>) : a \in Operands}
    \cup {Program(<<Return(1, a), ExprStmt(2, IntLit(0))>>) : a \in Operands}

\* programs that do
HashPrograms == Scenarios2 \cup {One(e) : e \in HashExprs(Pairs2)}

----------------
(* The state machine: an embedder makes an environment and calls           *)
(* Eval(program, env) on it.                                               *)

Init ==
    /\ \/ program \in PlainPrograms /\ oracle = <<>>
       \/ program \in HashPrograms /\ oracle \in [1..HashEvals -> Orders]
    /\ envs = NewEnvironment(<<>>)
    /\ next = 1
    /\ trace = <<>>
    /\ result = NIL
    /\ done = FALSE
    /\ NoLexer
    /\ NoMachine

EvalProgram ==
    /\ ~done
    /\ LET r == Eval(program, 1, [envs |-> envs, next |-> next, trace |-> trace,
                                  oracle |-> oracle, depth |-> 0])
       IN  /\ result' = r.val
           /\ envs' = r.st.envs
           /\ next' = r.st.next
           /\ trace' = r.st.trace
           /\ oracle' = r.st.oracle
    /\ done' = TRUE
    /\ UNCHANGED <<program, lexVars, vmVars>>

Next == EvalProgram

Spec == Init /\ [][Next]_vars

----------------------------------------------------------------------------
(* The environment API on its own: an embedder builds environments with    *)
(* NewEnvironment / NewEnclosedEnvironment and calls Set and Get on them.  *)
(* `result` records the last call and what it returned.                    *)

MaxEnvs == 3
MaxSets == 3

EnvNames == {"x", "y"}
EnvValues == {Integer(1), String("s")}

InitEnv ==
    /\ program = Program(<<>>)
    /\ oracle = <<>>
    /\ envs = <<>>
    /\ next = 0
    /\ trace = <<>>
    /\ result = [op |-> "none"]
    /\ done = FALSE
    /\ NoLexer
    /\ NoMachine

CallNewEnvironment ==
    /\ Len(envs) < MaxEnvs
    /\ envs' = NewEnvironment(envs)
    /\ result' = [op |-> "NewEnvironment", env |-> Len(envs')]
    /\ UNCHANGED <<program, oracle, next, trace, done, lexVars, vmVars>>

CallNewEnclosedEnvironment ==
    /\ Len(envs) < MaxEnvs
    /\ \E parent \in 1..Len(envs) :
        /\ envs' = NewEnclosedEnvironment(envs, parent)
        /\ result' = [op |-> "NewEnclosedEnvironment", env |-> Len(envs')]
    /\ UNCHANGED <<program, oracle, next, trace, done, lexVars, vmVars>>

\* `next` counts the Set calls made
CallSet ==
    /\ next < MaxSets
    /\ \E e \in 1..Len(envs), name \in EnvNames, val \in EnvValues :
        /\ envs' = Set(envs, e, name, val)
        /\ result' = [op |-> "Set", env |-> e, name |-> name, obj |-> val]
    /\ next' = next + 1
    /\ UNCHANGED <<program, oracle, trace, done, lexVars, vmVars>>

CallGet ==
    /\ \E e \in 1..Len(envs), name \in EnvNames :
        LET got == Get(envs, e, name)
        IN  result' = [op |-> "Get", env |-> e, name |-> name,
                       obj |-> got.obj, ok |-> got.ok]
    /\ UNCHANGED <<program, oracle, envs, next, trace, done, lexVars, vmVars>>

NextEnv ==
    \/ CallNewEnvironment
    \/ CallNewEnclosedEnvironment
    \/ CallSet
    \/ CallGet

SpecEnv == InitEnv /\ [][NextEnv]_vars

----------------------------------------------------------------------------
(* Reading the trace.  Eval calls are recorded when they return, so the    *)
(* trace is the call tree in post-order: the caller of call j is the first *)
(* later call one level up.                                                *)

Calls == 1..Len(trace)

Parent(j) ==
    LET up == {k \in Calls : k > j /\ trace[k].depth = trace[j].depth - 1}
    IN  IF up = {} THEN 0 ELSE CHOOSE k \in up : \A m \in up : k <= m

ChildrenOf(k) == {j \in Calls : j < k /\ Parent(j) = k}

\* the n-th call made by call k (n = 1 is the first), 0 if there are fewer
Child(k, n) ==
    LET nth == {j \in ChildrenOf(k) : Cardinality({i \in ChildrenOf(k) : i < j}) = n - 1}
    IN  IF nth = {} THEN 0 ELSE CHOOSE j \in nth : TRUE

LastChild(k) == Child(k, Cardinality(ChildrenOf(k)))

\* the calls Eval(program, env) made for the program's statements, in order
TopCalls == [n \in 1..Cardinality(ChildrenOf(Len(trace))) |-> Child(Len(trace), n)]

Returned == done /\ ~IsPanic(result)

----------------------------------------------------------------------------
(* C1: the value Eval returns for a Program is never a ReturnValue, and no *)
(* environment binds a name to a ReturnValue.                              *)
C1_ReturnValueNeverEscapes ==
    Returned =>
        /\ result.type # "RETURN_VALUE"
        /\ \A e \in 1..Len(envs) : \A n \in DOMAIN envs[e].store :
                envs[e].store[n].type # "RETURN_VALUE"

(* C2: when a call of Eval made while evaluating an expression or statement *)
(* returns an Error, the Eval call that made it returns that same Error     *)
(* (same message, same identity).                                           *)
C2_ErrorContainment ==
    done => \A j \in Calls :
                isError(trace[j].val) /\ Parent(j) # 0
                    => trace[Parent(j)].val = trace[j].val

\* the right operand of an infix expression yielded an Error after the left
\* one yielded a value, and the Error is the program's result
C2_Witness ==
    /\ done
    /\ \E k \in Calls :
        /\ trace[k].node = "InfixExpression"
        /\ Cardinality(ChildrenOf(k)) = 2
        /\ isError(trace[Child(k, 2)].val)
        /\ result = trace[Child(k, 2)].val

(* C3: evalProgram evaluates the statements in order and stops at the first *)
(* one that yields ReturnValue(v) or an Error; the result is then v         *)
(* (respectively the Error), no later statement is evaluated and no later   *)
(* let has bound its name; with no such statement every statement is        *)
(* evaluated and the result is the last statement's value.                  *)
C3_ProgramStopsAtFirstReturnOrError ==
    Returned =>
        LET stmts == program.Statements
            top == TopCalls
            stops == {n \in 1..Len(top) :
                        trace[top[n]].val.type \in {"RETURN_VALUE", "ERROR"}}
            letsUpTo(n) == {stmts[i].Name.Value :
                              i \in {m \in 1..n : stmts[m].node = "LetStatement"}}
        IN  /\ Len(top) <= Len(stmts)
            /\ \A n \in 1..Len(top) : trace[top[n]].id = stmts[n].id
            /\ \A n \in stops :
                /\ n = Len(top)
                /\ result = unwrapReturnValue(trace[top[n]].val)
                /\ DOMAIN envs[1].store \subseteq letsUpTo(n)
            /\ stops = {} =>
                /\ Len(top) = Len(stmts)
                /\ result = IF Len(stmts) = 0 THEN NIL ELSE trace[top[Len(top)]].val

\* a program stopped by a return before its last statement
C3_Witness ==
    /\ Returned
    /\ Len(program.Statements) > Len(TopCalls)
    /\ trace[TopCalls[Len(TopCalls)]].val.type = "RETURN_VALUE"
    /\ result = trace[TopCalls[Len(TopCalls)]].val.Value

\* the call Eval(fn.Body, extendedEnv) made by call expression k, 0 if none
BodyCall(k) ==
    LET body == {j \in ChildrenOf(k) : trace[j].node = "BlockStatement"}
    IN  IF body = {} THEN 0 ELSE CHOOSE j \in body : TRUE

(* C4: a statement of a block that yields a ReturnValue is the last one the *)
(* block evaluates, and the block yields that ReturnValue unchanged; a call *)
(* whose body yields ReturnValue(v) evaluates to v, and v is a value the    *)
(* caller goes on with, not a ReturnValue that ends the caller's block too. *)
C4_ReturnLeavesOnlyTheCall ==
    done => \A k \in Calls :
        /\ trace[k].node = "BlockStatement" =>
                \A j \in ChildrenOf(k) :
                    trace[j].val.type = "RETURN_VALUE"
                        => j = LastChild(k) /\ trace[k].val = trace[j].val
        /\ (/\ trace[k].node = "CallExpression"
            /\ BodyCall(k) # 0
            /\ trace[BodyCall(k)].val.type = "RETURN_VALUE") =>
                /\ trace[k].val = trace[BodyCall(k)].val.Value
                /\ trace[k].val.type # "RETURN_VALUE"

(* C5: a function value holds the environment its literal was evaluated in  *)
(* (by reference); the body of a call runs in a new environment whose       *)
(* parent is that environment, not the caller's; so an identifier of the    *)
(* body is resolved through the defining call's environment as it is at     *)
(* call time.                                                               *)
C5_ClosureCapturesEnvironment ==
    done =>
        /\ \A k \in Calls :
            /\ (trace[k].node = "FunctionLiteral" /\ ~IsPanic(trace[k].val))
                    => trace[k].val.Env = trace[k].env
            /\ (trace[k].node = "CallExpression" /\ BodyCall(k) # 0) =>
                    LET fn == trace[Child(k, 1)].val
                        env == trace[BodyCall(k)].env
                    IN  /\ env # trace[k].env
                        /\ envs[env].parent = fn.Env
                        /\ \A i \in 1..Len(fn.Parameters) :
                              fn.Parameters[i].Value \in DOMAIN envs[env].store
        /\ program = LateBinding => result = Integer(15)
        /\ program = CallerScope => isError(result) /\ result.Err = "identifier not found: w"
        /\ program = TwoCalls => result = Integer(-1)

\* a closure made by one call of an outer function is called from another
\* environment and reads a binding the outer call made after creating it
C5_Witness ==
    /\ done
    /\ program = LateBinding
    /\ \E k \in Calls :
        /\ trace[k].node = "CallExpression"
        /\ BodyCall(k) # 0
        /\ trace[Child(k, 1)].val.Env \notin {1, trace[k].env}
        /\ "z" \in DOMAIN envs[trace[Child(k, 1)].val.Env].store
        /\ result = Integer(15)

\* the environments from e up its parent chain, nearest first
RECURSIVE Chain(_)
Chain(e) == IF e = 0 THEN <<>> ELSE <<e>> \o Chain(envs[e].parent)

\* the positions on e's chain whose environment holds `name`
Holders(e, name) == {i \in 1..Len(Chain(e)) : name \in DOMAIN envs[Chain(e)[i]].store}

(* C6: Set(name, v) on an environment changes that environment's store at   *)
(* `name` and nothing else (no other name, no parent link, no other         *)
(* environment); Get(name) returns the value held by the nearest           *)
(* environment of the receiver's parent chain that has the name, and        *)
(* not-found when none has it.                                              *)
C6_SetIsLocalGetIsNearest ==
    [][/\ result'.op = "Set" =>
            /\ Len(envs') = Len(envs)
            /\ \A e \in 1..Len(envs) :
                /\ envs'[e].parent = envs[e].parent
                /\ e # result'.env => envs'[e].store = envs[e].store
            /\ LET old == envs[result'.env].store
                   new == envs'[result'.env].store
               IN  /\ DOMAIN new = DOMAIN old \cup {result'.name}
                   /\ new[result'.name] = result'.obj
                   /\ \A n \in DOMAIN old : n # result'.name => new[n] = old[n]
       /\ result'.op = "Get" =>
            LET at == Holders(result'.env, result'.name)
            IN  IF at = {} THEN ~result'.ok
                ELSE LET i == CHOOSE j \in at : \A m \in at : j <= m
                     IN  /\ result'.ok
                         /\ result'.obj = envs[Chain(result'.env)[i]].store[result'.name]
      ]_vars

\* Get on an environment that does not hold the name itself, over a
\* grandparent that holds it with another value, returns the parent's value
C6_Witness ==
    /\ result.op = "Get"
    /\ result.ok
    /\ Len(Chain(result.env)) = 3
    /\ Holders(result.env, result.name) = {2, 3}
    /\ envs[Chain(result.env)[3]].store[result.name] # result.obj

\* call j returned a value: not an Error, not nil, no panic
IsValue(j) == j # 0 /\ trace[j].val.type \notin {"ERROR", "nil", "panic"}

\* the pairs (key call, value call) hash literal call k evaluated in full
PairsOf(k) ==
    {<<Child(k, 2 * n - 1), Child(k, 2 * n)>> : n \in 1..(Cardinality(ChildrenOf(k)) \div 2)}

(* C7: indexing the hash a hash literal built with a key that was inserted  *)
(* returns the value inserted for that key (the last one inserted, when the *)
(* key was inserted twice); indexing it with a hashable key that was not    *)
(* inserted returns Null.                                                   *)
C7_HashLookupReturnsInserted ==
    done => \A k \in Calls :
        (/\ trace[k].node = "IndexExpression"
         /\ Child(k, 1) # 0
         /\ trace[Child(k, 1)].node = "HashLiteral"
         /\ trace[Child(k, 1)].val.type = "HASH"
         /\ IsValue(Child(k, 2))) =>
            LET index == trace[Child(k, 2)].val
                same == {p \in PairsOf(Child(k, 1)) : GoEq(trace[p[1]].val, index) = "true"}
            IN  /\ \A p \in same :
                    (\A q \in same : q[1] <= p[1]) => trace[k].val = trace[p[2]].val
                /\ (same = {} /\ Hashable(index)) => trace[k].val = NULL

(* C8: a hash literal one of whose keys evaluates to a value that is not an *)
(* Integer, a Bool or a String yields an Error, and so does indexing a hash *)
(* with such a value.                                                       *)
C8_HashKeysAreHashable ==
    done => \A k \in Calls :
        /\ (/\ trace[k].node = "HashLiteral"
            /\ \E p \in PairsOf(k) : IsValue(p[1]) /\ ~Hashable(trace[p[1]].val))
                => isError(trace[k].val)
        /\ (/\ trace[k].node = "IndexExpression"
            /\ Child(k, 1) # 0
            /\ trace[Child(k, 1)].val.type = "HASH"
            /\ IsValue(Child(k, 2))
            /\ ~Hashable(trace[Child(k, 2)].val))
                => isError(trace[k].val)

\* structural equality of two values
RECURSIVE StructEq(_, _)
StructEq(l, r) ==
    /\ l.type = r.type
    /\ CASE l.type = "ARRAY" ->
                /\ Len(l.elems) = Len(r.elems)
                /\ \A i \in 1..Len(l.elems) : StructEq(l.elems[i], r.elems[i])
         [] l.type = "HASH" ->
                /\ Len(l.entries) = Len(r.entries)
                /\ \A i \in 1..Len(l.entries) : \E j \in 1..Len(r.entries) :
                        /\ StructEq(l.entries[i][1], r.entries[j][1])
                        /\ StructEq(l.entries[i][2], r.entries[j][2])
         [] l.type = "RETURN_VALUE" -> StructEq(l.Value, r.Value)
         [] OTHER -> GoEq(l, r) = "true"

Numeric(v) == v.type \in {"INTEGER", "FLOAT"}

(* C9: == and != on two operands that are not both numbers and not both     *)
(* Strings yield the Bool that structural equality of the two values gives  *)
(* (respectively its negation), and never fail.                             *)
C9_EqualityIsStructural ==
    done => \A k \in Calls :
        (/\ trace[k].node = "InfixExpression"
         /\ trace[k].op \in {"==", "!="}
         /\ IsValue(Child(k, 1))
         /\ IsValue(Child(k, 2))
         /\ LET l == trace[Child(k, 1)].val
                r == trace[Child(k, 2)].val
            IN  /\ ~(Numeric(l) /\ Numeric(r))
                /\ ~(l.type = "STRING" /\ r.type = "STRING")) =>
            LET eq == StructEq(trace[Child(k, 1)].val, trace[Child(k, 2)].val)
            IN  trace[k].val = Bool(IF trace[k].op = "==" THEN eq ELSE ~eq)

(* C10: prefix - negates an Integer and negates a Float, and yields the     *)
(* Error "unknown operator: -T" for an operand of any other type T.         *)
C10_MinusNegatesNumbers ==
    done => \A k \in Calls :
        (/\ trace[k].node = "PrefixExpression"
         /\ trace[k].op = "-"
         /\ IsValue(Child(k, 1))) =>
            LET right == trace[Child(k, 1)].val
            IN  CASE right.type = "INTEGER" -> trace[k].val = Integer(-right.i)
                  [] right.type = "FLOAT" -> trace[k].val = Float(-right.num, right.den)
                  [] OTHER -> /\ isError(trace[k].val)
                              /\ trace[k].val.Err = "unknown operator: -" \o right.type

----------------------------------------------------------------------------
(* The lexer (src/lexer/lexer.go).  The input is a Go string: a sequence   *)
(* of bytes.  The bytes of the model are named by strings: the ASCII       *)
(* characters e 1 . + = " @ and the blank, the zero byte "NUL", the byte   *)
(* "BAD" (0xFF, which occurs in no UTF-8 encoding), and "L1" "L2", the     *)
(* lead byte and the continuation byte of a letter encoded on two bytes.   *)
(* Positions are byte offsets as in the Go code (0-based, the i-th byte    *)
(* of the input is input[i + 1]).                                          *)

Bytes == {"e", "1", ".", "+", "=", "\"", " ", "@", "NUL", "BAD", "L1", "L2"}

\* runes: rune 0, utf8.RuneError (U+FFFD), and the letter encoded as L1 L2
Rune0 == "NUL"
RuneError == "RuneError"
Letter2 == "LL"

\* utf8.DecodeRuneInString on a non-empty string: the rune and its width;
\* (RuneError, 1) for an encoding that is invalid or cut short
DecodeRuneInString(bytes) ==
    LET b == bytes[1]
    IN  IF b = "L1"
        THEN IF Len(bytes) >= 2 /\ bytes[2] = "L2"
             THEN [rune |-> Letter2, size |-> 2]
             ELSE [rune |-> RuneError, size |-> 1]
        ELSE IF b \in {"L2", "BAD"} THEN [rune |-> RuneError, size |-> 1]
        ELSE IF b = "NUL" THEN [rune |-> Rune0, size |-> 1]
        ELSE [rune |-> b, size |-> 1]

\* unicode.IsLetter(r) || r == '_', unicode.IsDigit, unicode.IsSpace
isLetter(r) == r \in {"e", Letter2}
isDecimal(r) == r = "1"
IsSpace(r) == r = " "

\* errors: nil, or the kind of message with the numbers and text formatted
\* into it
NoErr == [kind |-> "nil", pos |-> 0, end |-> 0, lit |-> <<>>]
Errorf(kind, pos, end, lit) == [kind |-> kind, pos |-> pos, end |-> end, lit |-> lit]

zeroToken == [Type |-> "", Literal |-> <<>>]
newToken(tokenType, lit) == [Type |-> tokenType, Literal |-> lit]

\* token.LookupIdent: no keyword (fn let true false if else return) can be
\* spelled with the letters of Bytes
LookupIdent(lit) == "IDENT"

initState(input) ==
    [input |-> input, tokPos |-> 0,
     rune |-> Rune0, runeSize |-> 0, runePos |-> 0,
     peeked |-> FALSE, peekRune |-> Rune0, peekSize |-> 0,
     readPos |-> 0]

\* what a method of state returns: the state it leaves, the rune and the error
P(s, r, err) == [s |-> s, r |-> r, err |-> err]

peek(s) ==
    IF s.peeked THEN P(s, s.peekRune, NoErr)
    ELSE IF s.readPos >= Len(s.input) THEN P(s, Rune0, NoErr)
    ELSE LET d == DecodeRuneInString(SubSeq(s.input, s.readPos + 1, Len(s.input)))
             s2 == [s EXCEPT !.peekRune = d.rune, !.peekSize = d.size, !.peeked = TRUE]
         IN  IF d.rune = RuneError
             THEN P(s2, RuneError, Errorf("failed to decode from utf8", s.readPos, 0, <<>>))
             ELSE P(s2, d.rune, NoErr)

\* `p := f(...)`: F with the value v for its variable
With(v, F(_)) == F(v)

readRune(s) ==
    With(peek(s), LAMBDA p :
        IF p.err # NoErr THEN p
        ELSE peek([p.s EXCEPT !.rune = p.s.peekRune,
                              !.runePos = p.s.readPos,
                              !.readPos = p.s.readPos + p.s.peekSize,
                              !.runeSize = p.s.peekSize,
                              !.peeked = FALSE,
                              !.peekRune = Rune0,
                              !.peekSize = 0]))

curLit(s) == SubSeq(s.input, s.tokPos + 1, s.readPos)

reset(s) ==
    [s EXCEPT !.tokPos = s.readPos, !.runePos = s.readPos, !.runeSize = 0, !.rune = Rune0]

\* the loop of readWhitespace, entered with what peek or readRune returned
RECURSIVE readWhitespaceLoop(_)
readWhitespaceLoop(p) ==
    IF p.err = NoErr /\ IsSpace(p.r) THEN readWhitespaceLoop(readRune(p.s)) ELSE p

readWhitespace(s) == readWhitespaceLoop(peek(s))

skipWhitespace(s) ==
    With(readWhitespace(s), LAMBDA p :
        IF p.err = NoErr THEN P(reset(p.s), p.r, p.err) ELSE p)

RECURSIVE readDecimalsLoop(_)
readDecimalsLoop(p) ==
    IF p.err = NoErr /\ isDecimal(p.r) THEN readDecimalsLoop(readRune(p.s)) ELSE p

readDecimals(s) == readDecimalsLoop(peek(s))

\* what a lexFunc returns: the state it leaves, the token and the error
T(s, tok, err) == [s |-> s, tok |-> tok, err |-> err]

litTok(typ, s) == T(s, newToken(typ, curLit(s)), NoErr)

\* nextTok as it would be without eat: the token's rune is never consumed
nextTokMut(typ, s) == litTok(typ, s)

\* eat(litTok(typ)): what readRune returns is dropped
nextTok(typ, s) == litTok(typ, readRune(s).s)

\* the entries of lexFuncs for '=' and '!'
lexAssignOrEq(s) ==
    With(readRune(s), LAMBDA p :
        IF p.err # NoErr THEN T(p.s, zeroToken, p.err)
        ELSE IF p.r = "=" THEN nextTok("EQ", p.s)
        ELSE litTok("ASSIGN", p.s))

\* lexNumber, lines 141-152: the fraction after the first digits
lexFraction(s, nextRune) ==
    IF nextRune = "."
    THEN With(readRune(s), LAMBDA a :
             IF a.err # NoErr
             THEN [failed |-> TRUE, s |-> a.s, r |-> a.r, err |-> a.err, typ |-> "FLOAT"]
             ELSE IF ~isDecimal(a.r)
             THEN [failed |-> TRUE, s |-> a.s, r |-> a.r, typ |-> "FLOAT",
                   err |-> Errorf("Illegal character after .", a.s.readPos, 0, <<a.r>>)]
             ELSE With(readDecimals(a.s), LAMBDA b :
                      IF b.err # NoErr
                      THEN [failed |-> TRUE, s |-> b.s, r |-> b.r, err |-> b.err,
                            typ |-> "FLOAT"]
                      ELSE [failed |-> FALSE, s |-> b.s, r |-> b.r, err |-> NoErr,
                            typ |-> "FLOAT"]))
    ELSE [failed |-> FALSE, s |-> s, r |-> nextRune, err |-> NoErr, typ |-> "INT"]

\* lexNumber, lines 153-166: the exponent; the sign is '+' or '-', of which
\* Bytes has '+'
lexExponent(s, nextRune, typ) ==
    IF nextRune = "e"
    THEN With(readRune(s), LAMBDA a :
             IF a.err # NoErr THEN T(a.s, zeroToken, a.err)
             ELSE With(IF a.r = "+" THEN readRune(a.s) ELSE a, LAMBDA b :
                      IF b.err # NoErr THEN T(b.s, zeroToken, b.err)
                      ELSE With(readDecimals(b.s), LAMBDA c :
                               IF c.err # NoErr THEN T(c.s, zeroToken, c.err)
                               ELSE T(c.s, newToken("FLOAT", curLit(c.s)), NoErr))))
    ELSE T(s, newToken(typ, curLit(s)), NoErr)

\* the error of the first readDecimals is never looked at
lexNumber(s) ==
    With(readDecimals(s), LAMBDA d :
        With(lexFraction(d.s, d.r), LAMBDA f :
            IF f.failed THEN T(f.s, zeroToken, f.err)
            ELSE lexExponent(f.s, f.r, f.typ)))

RECURSIVE lexString(_)
lexString(s) ==
    With(readRune(s), LAMBDA p :
        IF p.err # NoErr THEN T(p.s, zeroToken, p.err)
        ELSE IF p.r = Rune0
        THEN T(p.s, zeroToken, Errorf("unterminated string", p.s.tokPos, p.s.readPos, <<>>))
        ELSE IF p.r = "\""
        THEN With(readRune(p.s), LAMBDA q :
                 IF q.err # NoErr THEN T(q.s, zeroToken, q.err)
                 ELSE T(q.s, newToken("STRING",
                                      SubSeq(q.s.input, q.s.tokPos + 2, q.s.runePos)),
                        NoErr))
        ELSE lexString(p.s))

RECURSIVE lexIdentifierLoop(_)
lexIdentifierLoop(p) ==
    IF p.err = NoErr /\ isLetter(p.r) THEN lexIdentifierLoop(readRune(p.s)) ELSE p

lexIdentifier(s) ==
    With(lexIdentifierLoop(peek(s)), LAMBDA p :
        IF p.err # NoErr THEN T(p.s, zeroToken, p.err)
        ELSE T(p.s, newToken(LookupIdent(curLit(p.s)), curLit(p.s)), NoErr))

\* the runes of Bytes that lexFuncs has an entry for
lexFuncsDomain == {"+", "\"", Rune0, "="}

\* lexFuncs[nextRune](s)
lexFuncs(nextRune, s) ==
    CASE nextRune = "+" -> nextTok("PLUS", s)
      [] nextRune = "\"" -> lexString(s)
      [] nextRune = Rune0 -> T(s, [Type |-> "EOF", Literal |-> <<>>], NoErr)
      [] nextRune = "=" -> lexAssignOrEq(s)

\* the error of peek is dropped
lexDefault(s) ==
    With(peek(s), LAMBDA p :
        IF isLetter(p.r) THEN lexIdentifier(p.s)
        ELSE IF p.r = "." \/ isDecimal(p.r) THEN lexNumber(p.s)
        ELSE T(p.s, zeroToken, Errorf("Illegal token", p.s.tokPos, 0, curLit(p.s))))

lexNext(s) ==
    With(skipWhitespace(s), LAMBDA p :
        IF p.err # NoErr THEN T(p.s, zeroToken, p.err)
        ELSE IF p.r \in lexFuncsDomain THEN lexFuncs(p.r, p.s)
        ELSE lexDefault(p.s))

\* lexer.New
lexerNew(input) == [cur |-> zeroToken, err |-> NoErr, state |-> initState(input)]

\* Lexer.Next: the Lexer it leaves; it returns l.err == nil
lexerNext(l) ==
    IF l.err = NoErr /\ l.cur.Type # "EOF"
    THEN With(lexNext(l.state), LAMBDA t : [cur |-> t.tok, err |-> t.err, state |-> t.s])
    ELSE l

----------------
(* The lexer's state machine: a caller makes a Lexer for an input and      *)
(* calls Next on it again and again; after each call it reads Token() and  *)
(* Err(), which the log keeps with the positions the call started and      *)
(* ended at.                                                               *)

MaxInput == 3
MaxAfter == 2

RECURSIVE ByteSeqs(_)
ByteSeqs(n) ==
    IF n = 0 THEN {<<>>}
    ELSE {Append(bs, b) : bs \in ByteSeqs(n - 1), b \in Bytes}

\* longer inputs: numbers with a fraction and an exponent, a string with a
\* two-byte letter, tokens around a zero byte and around a bad byte
LongInputs ==
    { <<"1", "e", "+", "1">>, <<"1", ".", "1", "e", "1">>, <<"1", ".", "1", "e", "+">>,
      <<".", "1", "e", "1", "1">>, <<"\"", "e", "L1", "L2", "\"">>,
      <<"\"", "L1", "L2", "NUL", "\"">>, <<"=", "=", "BAD", "1", " ">>,
      <<"1", "1", "BAD", " ", "e">>, <<"e", " ", "NUL", " ", "1">>,
      <<"L1", "L2", "e", "=", "L1">>, <<" ", " ", "1", "+", "1", " ">> }

Inputs == UNION {ByteSeqs(n) : n \in 0..MaxInput} \cup LongInputs

InitLex ==
    /\ program = Program(<<>>)
    /\ oracle = <<>>
    /\ envs = <<>>
    /\ next = 0
    /\ trace = <<>>
    /\ result = NIL
    /\ done = FALSE
    /\ \E input \in Inputs : lexer = lexerNew(input)
    /\ log = <<>>
    /\ NoMachine

CallNext ==
    /\ Len(log) < Len(lexer.state.input) + 1 + MaxAfter
    /\ lexer' = lexerNext(lexer)
    /\ log' = Append(log, [ok |-> lexer'.err = NoErr,
                           tok |-> lexer'.cur,
                           err |-> lexer'.err,
                           from |-> lexer.state.readPos,
                           tokPos |-> lexer'.state.tokPos,
                           readPos |-> lexer'.state.readPos])
    /\ UNCHANGED <<evalVars, vmVars>>

NextLex == CallNext

SpecLex == InitLex /\ [][NextLex]_vars

----------------------------------------------------------------------------
(* Reading the log of the lexer.                                           *)

LexInput == lexer.state.input

\* the offset of the first byte of the input that starts no valid UTF-8
\* encoding, -1 when the input is valid UTF-8
RECURSIVE FirstBadFrom(_, _)
FirstBadFrom(input, pos) ==
    IF pos >= Len(input) THEN -1
    ELSE LET d == DecodeRuneInString(SubSeq(input, pos + 1, Len(input)))
         IN  IF d.rune = RuneError THEN pos ELSE FirstBadFrom(input, pos + d.size)

FirstBad == FirstBadFrom(LexInput, 0)

\* the calls of Next that returned true, and those among them that produced
\* a token other than EOF
Produced == {i \in 1..Len(log) : log[i].ok}
Tokens == {i \in Produced : log[i].tok.Type # "EOF"}

(* C11: when the input is not valid UTF-8, no token produced starts at or  *)
(* after the first bad byte, EOF is never produced, len(input)+1 calls of  *)
(* Next are enough for one of them to return false with an error, and once *)
(* a call has returned false every later call returns false with the same  *)
(* error and reads nothing more.                                           *)
C11_BadUtf8Halts ==
    FirstBad >= 0 =>
        /\ \A i \in Produced : log[i].tok.Type # "EOF" /\ log[i].tokPos < FirstBad
        /\ Len(log) >= Len(LexInput) + 1 =>
               \E i \in 1..Len(log) : ~log[i].ok /\ log[i].err # NoErr
        /\ \A i, j \in 1..Len(log) :
               i < j /\ ~log[i].ok =>
                   /\ ~log[j].ok
                   /\ log[j].err = log[i].err
                   /\ log[j].readPos = log[i].readPos
                   /\ log[j].from = log[i].readPos

\* the index after the digits of lit that start at index i
RECURSIVE SkipDigits(_, _)
SkipDigits(lit, i) ==
    IF i <= Len(lit) /\ isDecimal(lit[i]) THEN SkipDigits(lit, i + 1) ELSE i

\* lit is: digits, then optionally '.' and one or more digits, then
\* optionally 'e', an optional sign and one or more digits (the leading
\* digits may be none, as in .1)
NumberForm(lit) ==
    LET a == SkipDigits(lit, 1)
        dot == a <= Len(lit) /\ lit[a] = "."
        b == IF dot THEN SkipDigits(lit, a + 1) ELSE a
        exp == b <= Len(lit) /\ lit[b] = "e"
        sign == exp /\ b + 1 <= Len(lit) /\ lit[b + 1] = "+"
        c1 == IF sign THEN b + 2 ELSE IF exp THEN b + 1 ELSE b
        c == IF exp THEN SkipDigits(lit, c1) ELSE b
    IN  /\ dot => b > a + 1
        /\ exp => c > c1
        /\ c = Len(lit) + 1

(* C12: every INT or FLOAT token has a literal of the number form, and it  *)
(* is a FLOAT exactly when the literal has a '.' or an exponent marker;    *)
(* a '.' or an exponent marker with no digit after it is in no number.     *)
C12_NumberGrammar ==
    \A i \in Tokens :
        log[i].tok.Type \in {"INT", "FLOAT"} =>
            LET lit == log[i].tok.Literal
            IN  /\ NumberForm(lit)
                /\ log[i].tok.Type = "FLOAT" <=> \E k \in 1..Len(lit) : lit[k] \in {".", "e"}

----------------------------------------------------------------------------
(* The compiler and the VM (packages compiler and vm), as section 4.4 and  *)
(* 4.5 of the specification describe them: their code is not among the     *)
(* sources, only their callers are (Start in part_004, runVmTests in       *)
(* vm_test.go).  An instruction is [op, operand]; the byte encoding of the *)
(* instructions is not modelled.                                           *)

Ins(op, operand) == [op |-> op, operand |-> operand]

\* compiler.New: no instruction, no constant, an empty symbol table
compilerNew == [instructions |-> <<>>, constants |-> <<>>, symbols |-> <<>>, err |-> ""]

emit(c, op, operand) == [c EXCEPT !.instructions = Append(@, Ins(op, operand))]

\* the symbol table: the i-th symbol defined has the global index i - 1
Define(c, name) == [c EXCEPT !.symbols = Append(@, name)]
Resolve(c, name) ==
    LET found == {i \in 1..Len(c.symbols) : c.symbols[i] = name}
    IN  IF found = {} THEN -1 ELSE (CHOOSE i \in found : \A j \in found : j <= i) - 1

ArithmeticOps == [p \in {"+", "-", "*", "/"} |->
                    CASE p = "+" -> "OpAdd" [] p = "-" -> "OpSub"
                      [] p = "*" -> "OpMul" [] p = "/" -> "OpDiv"]

RECURSIVE Compile(_, _)
RECURSIVE CompileStatements(_, _, _)
CompileStatements(stmts, i, c) ==
    IF i > Len(stmts) \/ c.err # "" THEN c
    ELSE CompileStatements(stmts, i + 1, Compile(stmts[i], c))

\* compiler.Compile: the compiler after node is compiled, c.err its error
Compile(node, c) ==
    CASE node.node = "Program" -> CompileStatements(node.Statements, 1, c)
      [] node.node = "ExpressionStatement" ->
            LET c1 == Compile(node.Expression, c)
            IN  IF c1.err # "" THEN c1 ELSE emit(c1, "OpPop", 0)
      [] node.node = "LetStatement" ->
            LET c1 == Compile(node.Value, c)
            IN  IF c1.err # "" THEN c1
                ELSE LET c2 == Define(c1, node.Name.Value)
                     IN  emit(c2, "OpSetGlobal", Resolve(c2, node.Name.Value))
      [] node.node = "Identifier" ->
            IF Resolve(c, node.Value) < 0
            THEN [c EXCEPT !.err = "undefined variable " \o node.Value]
            ELSE emit(c, "OpGetGlobal", Resolve(c, node.Value))
      [] node.node = "IntegerLiteral" ->
            emit([c EXCEPT !.constants = Append(@, Integer(node.IntValue))],
                 "OpConstant", Len(c.constants))
      [] node.node = "InfixExpression" /\ node.Operator \in DOMAIN ArithmeticOps ->
            LET c1 == Compile(node.Left, c)
                c2 == IF c1.err # "" THEN c1 ELSE Compile(node.Right, c1)
            IN  IF c2.err # "" THEN c2 ELSE emit(c2, ArithmeticOps[node.Operator], 0)
      [] OTHER -> [c EXCEPT !.err = "cannot compile " \o node.node]

Bytecode(c) == [instructions |-> c.instructions, constants |-> c.constants]

\* vm.New: an empty stack, no global set, the instruction pointer on the first
\* instruction
vmNew(bytecode) ==
    [instructions |-> bytecode.instructions, constants |-> bytecode.constants,
     stack |-> <<>>, lastPopped |-> NIL, globals |-> <<>>, ip |-> 1, err |-> ""]

push(vm, o) == [vm EXCEPT !.stack = Append(@, o)]
pop(vm) == [vm EXCEPT !.stack = SubSeq(@, 1, Len(@) - 1), !.lastPopped = vm.stack[Len(vm.stack)]]

\* OpAdd, OpSub, OpMul, OpDiv: pop the right operand, then the left one, push
\* the result
executeBinaryOperation(vm, op) ==
    LET right == vm.stack[Len(vm.stack)]
        left == vm.stack[Len(vm.stack) - 1]
        rest == [vm EXCEPT !.stack = SubSeq(@, 1, Len(@) - 2)]
    IN  IF left.type = "INTEGER" /\ right.type = "INTEGER"
        THEN CASE op = "OpAdd" -> push(rest, Integer(left.i + right.i))
               [] op = "OpSub" -> push(rest, Integer(left.i - right.i))
               [] op = "OpMul" -> push(rest, Integer(left.i * right.i))
               [] op = "OpDiv" ->
                    IF right.i = 0 THEN [rest EXCEPT !.err = "division by zero"]
                    ELSE push(rest, Integer(Quo(left.i, right.i)))
        ELSE [rest EXCEPT !.err = "unsupported types for binary operation"]

\* one turn of the dispatch loop
vmStep(vm) ==
    LET ins == vm.instructions[vm.ip]
        at == [vm EXCEPT !.ip = @ + 1]
    IN  CASE ins.op = "OpConstant" -> push(at, vm.constants[ins.operand + 1])
          [] ins.op = "OpPop" -> pop(at)
          [] ins.op \in {"OpAdd", "OpSub", "OpMul", "OpDiv"} ->
                executeBinaryOperation(at, ins.op)
          [] ins.op = "OpSetGlobal" ->
                LET v == vm.stack[Len(vm.stack)]
                    popped == pop(at)
                IN  [popped EXCEPT !.globals =
                        [g \in DOMAIN @ \cup {ins.operand} |->
                            IF g = ins.operand THEN v ELSE @[g]]]
          [] ins.op = "OpGetGlobal" -> push(at, vm.globals[ins.operand])

\* vm.Run: until the instruction pointer leaves the instructions, or an error
RECURSIVE vmRun(_)
vmRun(vm) ==
    IF vm.ip > Len(vm.instructions) \/ vm.err # "" THEN vm ELSE vmRun(vmStep(vm))

\* the value the VM exposes once Run has returned: the last value popped
StackTop(vm) == vm.lastPopped

----------------------------------------------------------------------------
(* The prompt: repl.Start (part_004:17-60) reads a line, parses it, and,   *)
(* when the parser reports no error, compiles the program with a new       *)
(* compiler and runs the bytecode on a new VM.  The parser is not among    *)
(* the sources: a line is what the parser makes of it, its errors and its  *)
(* program.  session.out has, for every line read, what Start wrote.       *)

MaxLines == 3

Line(errors, prog) == [errors |-> errors, program |-> prog]

\* let x = 5;   let x = 7;   x   x + 1   1 + 2   and a line that does not parse
Lines ==
    { Line(<<>>, Program(<<Let(1, "x", IntLit(5))>>)),
      Line(<<>>, Program(<<Let(1, "x", IntLit(7))>>)),
      Line(<<>>, One(Ident("x"))),
      Line(<<>>, One(Infix("+", Ident("x"), IntLit(1)))),
      Line(<<>>, One(Infix("+", IntLit(1), IntLit(2)))),
      Line(<<"expected next token to be IDENT, got = instead">>, Program(<<>>)) }

Out(kind, text, val) == [kind |-> kind, text |-> text, val |-> val]

\* one turn of the loop of Start on a line the scanner returned: what it
\* writes, and the compiler and the VM it made
Start(line, before) ==
    IF Len(line.errors) # 0
    THEN [out |-> Out("parser errors", line.errors, NIL), machine |-> before]
    ELSE LET comp == Compile(line.program, compilerNew)
         IN  IF comp.err # ""
             THEN [out |-> Out("Woops! Compilation failed", <<comp.err>>, NIL),
                   machine |-> [comp |-> comp, vm |-> <<>>]]
             ELSE LET vm == vmRun(vmNew(Bytecode(comp)))
                  IN  IF vm.err # ""
                      THEN [out |-> Out("Woops! Executing bytecode failed", <<vm.err>>, NIL),
                            machine |-> [comp |-> comp, vm |-> vm]]
                      ELSE [out |-> Out("Inspect", <<>>, StackTop(vm)),
                            machine |-> [comp |-> comp, vm |-> vm]]

InitRepl ==
    /\ program = Program(<<>>)
    /\ oracle = <<>>
    /\ envs = <<>>
    /\ next = 0
    /\ trace = <<>>
    /\ result = NIL
    /\ done = FALSE
    /\ NoLexer
    /\ machine = <<>>
    /\ session = [lines |-> <<>>, out |-> <<>>, closed |-> FALSE]

\* scanner.Scan returns true: a line was read
ReadLine ==
    /\ ~session.closed
    /\ Len(session.lines) < MaxLines
    /\ \E line \in Lines :
        LET r == Start(line, machine)
        IN  /\ session' = [session EXCEPT !.lines = Append(@, line),
                                          !.out = Append(@, r.out)]
            /\ machine' = r.machine
    /\ UNCHANGED <<evalVars, lexVars>>

\* scanner.Scan returns false: Start returns
EndOfInput ==
    /\ ~session.closed
    /\ session' = [session EXCEPT !.closed = TRUE]
    /\ UNCHANGED <<evalVars, lexVars, machine>>

NextRepl == ReadLine \/ EndOfInput

SpecRepl == InitRepl /\ [][NextRepl]_vars

\* line k of the session is `let name = <integer literal>;`
IsLetLine(lines, k) ==
    /\ lines[k].errors = <<>>
    /\ Len(lines[k].program.Statements) = 1
    /\ lines[k].program.Statements[1].node = "LetStatement"

LetName(lines, k) == lines[k].program.Statements[1].Name.Value
LetValue(lines, k) == Integer(lines[k].program.Statements[1].Value.IntValue)

(* C13: a global bound by a line of the session is visible to every later  *)
(* line (the line `x` prints the value the last `let x = ..;` line before  *)
(* it gave x), and a line with parse errors prints the errors, is not      *)
(* executed and leaves the state of the session as it was.                 *)
C13_SessionStatePersists ==
    [][ Len(session'.lines) > Len(session.lines) =>
          LET lines == session'.lines
              out == session'.out
              k == Len(lines)
          IN  /\ lines[k].errors # <<>> =>
                    /\ out[k] = Out("parser errors", lines[k].errors, NIL)
                    /\ machine' = machine
              /\ \A i \in 1..(k - 1) :
                    ( /\ IsLetLine(lines, i)
                      /\ lines[k] = Line(<<>>, One(Ident(LetName(lines, i))))
                      /\ \A m \in (i + 1)..(k - 1) :
                            ~(IsLetLine(lines, m) /\ LetName(lines, m) = LetName(lines, i)) )
                    => out[k] = Out("Inspect", <<>>, LetValue(lines, i)) ]_vars

----------------------------------------------------------------------------
(* The two backends on one program: runVmTests (vm_test.go:40-62) compiles *)
(* the program and runs it on a new VM, and the evaluator evaluates the    *)
(* same program (EvalProgram).                                             *)

MaxInt == 3

IntLits == {IntLit(i) : i \in 0..MaxInt}

\* 1    1 + 2    1 + 2 + 3 (that is (1 + 2) + 3)    1 + (2 + 3)
IntPrograms ==
    {One(a) : a \in IntLits}
    \cup {One(Infix("+", a, b)) : a, b \in IntLits}
    \cup {One(Infix("+", Infix("+", a, b), c)) : a, b, c \in IntLits}
    \cup {One(Infix("+", a, Infix("+", b, c))) : a, b, c \in IntLits}

InitVM ==
    /\ program \in IntPrograms
    /\ oracle = <<>>
    /\ envs = NewEnvironment(<<>>)
    /\ next = 1
    /\ trace = <<>>
    /\ result = NIL
    /\ done = FALSE
    /\ NoLexer
    /\ machine = [ran |-> FALSE]
    /\ session = <<>>

\* the body of the loop of runVmTests on the program
RunVmTest ==
    /\ ~machine.ran
    /\ LET comp == Compile(program, compilerNew)
           vm == vmRun(vmNew(Bytecode(comp)))
       IN  machine' =
              IF comp.err # ""
              THEN [ran |-> TRUE, fatal |-> "compiler error: " \o comp.err, stackElem |-> NIL]
              ELSE IF vm.err # ""
              THEN [ran |-> TRUE, fatal |-> "vm error: " \o vm.err, stackElem |-> NIL]
              ELSE [ran |-> TRUE, fatal |-> "", stackElem |-> StackTop(vm)]
    /\ UNCHANGED <<evalVars, lexVars, session>>

NextVM == EvalProgram \/ RunVmTest

SpecVM == InitVM /\ [][NextVM]_vars

\* the sum of the integer literals of an expression made of + and literals
RECURSIVE SumOf(_)
SumOf(e) ==
    IF e.node = "IntegerLiteral" THEN e.IntValue ELSE SumOf(e.Left) + SumOf(e.Right)

(* C14: on a program that is an integer literal or a sum of integer        *)
(* literals, compiling and running on a new VM fails with no compile or    *)
(* run error, and the VM's stack-top value is the Integer the evaluator    *)
(* returns for the program: the literal, or the sum of the operands.       *)
C14_VmAgreesWithEvaluator ==
    (done /\ machine.ran) =>
        /\ machine.fatal = ""
        /\ machine.stackElem = result
        /\ result = Integer(SumOf(program.Statements[1].Expression))

C14_Witness ==
    /\ done
    /\ machine.ran
    /\ program = One(Infix("+", Infix("+", IntLit(1), IntLit(2)), IntLit(3)))
    /\ machine.stackElem = Integer(6)

----------------------------------------------------------------------------
\* the nodes that are expressions
ExpressionNodes ==
    {"Identifier", "IntegerLiteral", "FloatLiteral", "StringLiteral", "Bool",
     "PrefixExpression", "InfixExpression", "IfExpression", "FunctionLiteral",
     "CallExpression", "ArrayLiteral", "IndexExpression", "HashLiteral"}

(* C15: Eval returns a Value for every expression, never nil (an           *)
(* if-expression whose block is empty or ends in a let, a call of a        *)
(* function whose body is empty or ends in a let), and an operator,        *)
(* condition, index or call evaluated on the result of such an expression  *)
(* returns and does not crash.                                             *)
C15_EvalReturnsAValue ==
    \A j \in Calls :
        trace[j].node \in ExpressionNodes =>
            /\ ~IsNil(trace[j].val)
            /\ \A k \in Calls :
                  (Parent(k) = j /\ trace[k].node \in ExpressionNodes /\ IsNil(trace[k].val))
                      => ~IsPanic(trace[j].val)

----------------------------------------------------------------------------
\* a value with the address of its allocation left out
StripAddr(v) == IF "addr" \in DOMAIN v THEN [v EXCEPT !.addr = 0] ELSE v

\* the same result: two hashes with the same pairs, or the same Error message,
\* or the same value
SameResult(a, b) ==
    IF a.type = "HASH" /\ b.type = "HASH"
    THEN {<<StripAddr(a.entries[i][1]), StripAddr(a.entries[i][2])>> : i \in 1..Len(a.entries)}
         = {<<StripAddr(b.entries[i][1]), StripAddr(b.entries[i][2])>> : i \in 1..Len(b.entries)}
    ELSE StripAddr(a) = StripAddr(b)

\* the pairs of a literal visited in the order of the source
SourceOrder == [i \in 1..MaxPairs |-> i]

\* what the program evaluates to when every hash literal evaluates its pairs
\* in source order
InSourceOrder ==
    Eval(program, 1, [envs |-> NewEnvironment(<<>>), next |-> 1, trace |-> <<>>,
                      oracle |-> [n \in 1..HashEvals |-> SourceOrder], depth |-> 0]).val

(* C16: a hash literal evaluates its pairs in source order, so its result  *)
(* is the one source order gives: the Error of the first pair in the       *)
(* source that fails, and for two pairs with equal keys the value of the   *)
(* later pair.                                                             *)
C16_HashLiteralInSourceOrder ==
    (done /\ oracle # <<>>) => SameResult(result, InSourceOrder)

----------------------------------------------------------------------------
\* whether environment e of the heap binds the name itself, and to what
Binding(heap, e, name) ==
    IF name \in DOMAIN heap[e].store THEN <<TRUE, heap[e].store[name]>> ELSE <<FALSE, NIL>>

\* the calls made, directly or not, by call j
Descendants(j) ==
    {d \in Calls : d < j /\ \A m \in d..(j - 1) : trace[m].depth > trace[j].depth}

\* the let statements that returned: their right-hand side raised no panic
Lets == {j \in Calls : trace[j].node = "LetStatement" /\ ~IsPanic(trace[j].val)}

\* the let statements, evaluated while the right-hand side of let j was, that
\* bound j's name in j's environment
NestedLets(j) ==
    {d \in Descendants(j) : /\ trace[d].node = "LetStatement"
                            /\ trace[d].env = trace[j].env
                            /\ trace[d].name = trace[j].name
                            /\ IsNil(trace[d].val)}

\* what a let that evaluated its right-hand side to the non-error v does
LetBinds(j, v) ==
    /\ Binding(trace[j].post, trace[j].env, trace[j].name) = <<TRUE, v>>
    /\ \A e \in 1..Len(trace[j].pre) : e # trace[j].env => trace[j].post[e] = trace[j].pre[e]
    /\ IsNil(trace[j].val)

(* C17, as stated: a let whose right-hand side evaluates to an Error       *)
(* evaluates to that Error and the binding of its name in the current      *)
(* environment is as it was before the statement; a let whose right-hand   *)
(* side evaluates to a non-error v binds the name to v in the current      *)
(* environment, changes no other environment, and produces no value.       *)
C17_LetErrorLeavesBindingAsBefore ==
    \A j \in Lets :
        LET v == trace[Child(j, 1)].val
        IN  IF isError(v)
            THEN /\ trace[j].val = v
                 /\ Binding(trace[j].post, trace[j].env, trace[j].name)
                        = Binding(trace[j].pre, trace[j].env, trace[j].name)
            ELSE LetBinds(j, v)

(* C17, amended: a let whose right-hand side evaluates to an Error         *)
(* evaluates to that Error and binds nothing itself: the binding of its    *)
(* name is as it was before the statement or, when let statements nested   *)
(* in the right-hand side bound the name, as the last of them left it.     *)
(* The non-error case is as stated.                                        *)
C17_LetErrorBindsNothing ==
    \A j \in Lets :
        LET v == trace[Child(j, 1)].val
            last == CHOOSE d \in NestedLets(j) : \A m \in NestedLets(j) : m <= d
        IN  IF isError(v)
            THEN /\ trace[j].val = v
                 /\ Binding(trace[j].post, trace[j].env, trace[j].name)
                        = IF NestedLets(j) = {}
                          THEN Binding(trace[j].pre, trace[j].env, trace[j].name)
                          ELSE Binding(trace[last].post, trace[j].env, trace[j].name)
            ELSE LetBinds(j, v)

\* a let fails after a let nested in its right-hand side has bound its name
C17_Witness ==
    /\ done
    /\ \E j \in Lets :
          /\ isError(trace[Child(j, 1)].val)
          /\ NestedLets(j) # {}
          /\ Binding(trace[j].pre, trace[j].env, trace[j].name) = <<FALSE, NIL>>
          /\ Binding(trace[j].post, trace[j].env, trace[j].name) = <<TRUE, Integer(2)>>

----------------------------------------------------------------------------
\* the program is one expression statement calling a function literal
IsLiteralCall ==
    /\ Len(program.Statements) = 1
    /\ program.Statements[1].node = "ExpressionStatement"
    /\ program.Statements[1].Expression.node = "CallExpression"
    /\ program.Statements[1].Expression.Function.node = "FunctionLiteral"

TheCall == program.Statements[1].Expression

\* the call Eval made for that call expression
TheCallEvent == Child(Child(Len(trace), 1), 1)

\* the function and every argument evaluated to a value that is no Error,
\* so that the call reached applyFunction
ArgsEvaluated ==
    \A n \in 1..(Len(TheCall.Arguments) + 1) :
        /\ Child(TheCallEvent, n) # 0
        /\ ~isError(trace[Child(TheCallEvent, n)].val)
        /\ ~IsPanic(trace[Child(TheCallEvent, n)].val)

\* the call ran the body in an environment that binds the parameters the
\* call gave no argument for to Null
MissingBoundToNull ==
    LET body == Child(TheCallEvent, Len(TheCall.Arguments) + 2)
    IN  /\ body # 0
        /\ \A k \in (Len(TheCall.Arguments) + 1)..Len(TheCall.Function.Parameters) :
              Binding(envs, trace[body].env, TheCall.Function.Parameters[k].Value)
                  = <<TRUE, NULL>>

(* C18: a call of a Function with fewer or more arguments than it has      *)
(* parameters either binds the missing parameters to Null or evaluates to  *)
(* an Error; it raises no panic and does not run the body with the extra   *)
(* arguments dropped.                                                      *)
C18_ArityMismatchIsDefined ==
    (done /\ IsLiteralCall) =>
        ((ArgsEvaluated /\ Len(TheCall.Arguments) # Len(TheCall.Function.Parameters)) =>
            /\ ~IsPanic(result)
            /\ \/ isError(result)
               \/ /\ Len(TheCall.Arguments) < Len(TheCall.Function.Parameters)
                  /\ MissingBoundToNull)

----------------------------------------------------------------------------
\* the calls of Next made so far are enough for an input of this length
EnoughCalls == Len(log) >= Len(LexInput) + 1

(* C19: lexing terminates. Every call of Next that returns a token other   *)
(* than EOF moves the read position forward by at least one byte; before   *)
(* and after every call tokPos <= readPos <= len(input); and among the     *)
(* first len(input)+1 calls of Next one produced EOF or returned false     *)
(* with an error.                                                          *)
C19_LexingTerminates ==
    /\ \A i \in Tokens : log[i].readPos >= log[i].from + 1
    /\ lexer.state.tokPos <= lexer.state.readPos
    /\ lexer.state.readPos <= Len(LexInput)
    /\ EnoughCalls =>
           \E i \in 1..(Len(LexInput) + 1) :
               \/ log[i].ok /\ log[i].tok.Type = "EOF"
               \/ ~log[i].ok /\ log[i].err # NoErr

\* an input of two bytes or more, each a token of its own, so that EOF
\* comes with the last of the len(input)+1 calls
C19_Witness ==
    /\ Len(LexInput) >= 2
    /\ Len(log) = Len(LexInput) + 1
    /\ Cardinality(Tokens) = Len(LexInput)
    /\ log[Len(log)].ok
    /\ log[Len(log)].tok.Type = "EOF"

----------------------------------------------------------------------------
\* the calls of Next that produced the EOF token
Eofs == {i \in Produced : log[i].tok.Type = "EOF"}

(* C20: the EOF token is produced only when the whole input has been       *)
(* consumed, the read position being len(input), also for an input that    *)
(* holds a NUL byte; and after a call of Next has produced EOF every later  *)
(* call returns true, leaves Token() equal to EOF and reads nothing.        *)
C20_EofOnlyAtEndOfInput ==
    \A i \in Eofs :
        /\ log[i].readPos = Len(LexInput)
        /\ \A j \in 1..Len(log) :
              j > i =>
                  /\ log[j].ok
                  /\ log[j].tok = log[i].tok
                  /\ log[j].readPos = log[j].from

====
